---- MODULE Spec2Model ----
(***************************************************************************)
(* natch / chex_fine: typed column buffers (column.cpp) and the            *)
(* column-major to row-major conversion of SELECT results (select.cpp).    *)
(*                                                                         *)
(* Scalars are modelled at their real widths.  A 64-bit word is a tuple of *)
(* four 16-bit limbs, least significant first, so that no intermediate     *)
(* value leaves the range of 32-bit integers.  A string is                 *)
(* the tuple of its bytes.  A double is <<sign, exponent, hi, lo>> with hi *)
(* the leading 24 bits of the significand (hidden bit included) and lo the *)
(* remaining 29; a float is <<sign, exponent, hi>>.                        *)
(***************************************************************************)
EXTENDS Integers, Sequences, FiniteSets, TLC

VARIABLES
  cols,      \* the column resources created so far, by handle 1..Len(cols)
  ret,       \* what the last column NIF call returned
  call,      \* one append call under study: kind, starting column, values
  bulk,      \* its outcome through the bulk NIF
  scalar,    \* its progress through the scalar NIF, one call per value
  rows,      \* the rows materialized from the bulk-built column
  cs,        \* a block handed to block_to_maps_impl
  out,       \* what block_to_maps_impl returned for cs
  arrived,   \* the blocks delivered to the Select callback so far
  all_maps,  \* client_select's accumulator
  pc,        \* where client_select is
  result     \* what client_select returned

vars == <<cols, ret, call, bulk, scalar, rows, cs, out, arrived, all_maps, pc, result>>
colVars == <<cols, ret>>
callVars == <<call, bulk, scalar, rows>>
matVars == <<cs, out>>
selVars == <<arrived, all_maps, pc, result>>

\* ------------------------------------------------------------- bounds
MaxCols == 1
MaxElems == 2
MaxBulk == 2
MaxJunk == 1
MaxRows == 3
MaxBlocks == 3

\* ------------------------------------------------------------- words
LimbBase == 256 * 256
LimbMax == LimbBase - 1
Pow2(n) == IF n = 0 THEN 1 ELSE 2 ^ n

AllOnes64 == <<LimbMax, LimbMax, LimbMax, LimbMax>>
Word(lo) == <<lo, 0, 0, 0>>

CastU8Saturating(v) ==
  IF v[1] < 256 /\ v[2] = 0 /\ v[3] = 0 /\ v[4] = 0 THEN v ELSE Word(255)

\* static_cast<uintW_t>(v) of a 64-bit v: the low-order W bits, zero-extended.
CastU8(v) == <<v[1] % 256, 0, 0, 0>>
CastU16(v) == <<v[1], 0, 0, 0>>
CastU32(v) == <<v[1], v[2], 0, 0>>
CastU64(v) == v

\* static_cast<intW_t>(v) of a 64-bit v keeps the low-order W bits as the
\* two's-complement pattern of the stored value.
CastI8(v) == <<v[1] % 256, 0, 0, 0>>
CastI16(v) == <<v[1], 0, 0, 0>>
CastI32(v) == <<v[1], v[2], 0, 0>>
CastI64(v) == v

\* Integral conversion of a stored W-bit signed pattern to a 64-bit
\* ErlNifSInt64: sign extension.
SignExtend8(p) == IF p[1] >= 128 THEN <<p[1] + (LimbBase - 256), LimbMax, LimbMax, LimbMax>> ELSE p
SignExtend16(p) == IF p[1] >= 32768 THEN <<p[1], LimbMax, LimbMax, LimbMax>> ELSE p
SignExtend32(p) == IF p[2] >= 32768 THEN <<p[1], p[2], LimbMax, LimbMax>> ELSE p

\* ------------------------------------------------------------- floats
HiMin == Pow2(23)
HiTop == Pow2(24)
LoHalf == Pow2(28)
FloatMaxExp == 126 + 1
FloatMinExp == 0 - 126
FloatInfExp == FloatMaxExp + 1
DoubleInfExp == 1023 + 1

\* static_cast<float>(double): round the 53-bit significand to 24 bits, to
\* nearest, ties to even; a carry renormalises; an exponent above the float
\* range gives infinity.  (Doubles below the float's normal range are not
\* among the sampled inputs.)
CastFloat(d) ==
  LET up == d[4] > LoHalf \/ (d[4] = LoHalf /\ d[3] % 2 = 1)
      h1 == IF up THEN d[3] + 1 ELSE d[3]
      h2 == IF h1 = HiTop THEN HiMin ELSE h1
      e2 == IF h1 = HiTop THEN d[2] + 1 ELSE d[2]
  IN IF e2 > FloatMaxExp THEN <<d[1], FloatInfExp, 0>> ELSE <<d[1], e2, h2>>

\* float -> double (the implicit conversion at enif_make_double): exact.
WidenFloat(f) ==
  IF f[2] = FloatInfExp THEN <<f[1], DoubleInfExp, 0, 0>> ELSE <<f[1], f[2], f[3], 0>>

\* ------------------------------------------------------------- columns
ScalarKinds ==
  {"UInt8", "UInt16", "UInt32", "UInt64", "Int8", "Int16", "Int32", "Int64",
   "Float32", "Float64", "String", "Date", "DateTime"}

\* A column object: its dynamic type and its elements.  An element carries
\* the type it was written as, which is the column's type unless the write
\* went through a wrongly typed pointer.
NullColumn == [kind |-> "null", values |-> <<>>]
Elem(K, v) == [kind |-> K, v |-> v]

\* clickhouse::CreateColumnByType: a fresh empty column of the named type,
\* or a null pointer when the name is not a known type.
CreateColumnByType(type_name) ==
  IF type_name \in ScalarKinds THEN [kind |-> type_name, values |-> <<>>] ELSE NullColumn

column_create_unchecked(type_name) ==
  [status |-> "ok", err |-> "", col |-> CreateColumnByType(type_name)]

\* column_create: the resource is made only for a non-null column; every
\* failure leaves as "Column creation failed: ...".
column_create(type_name) ==
  LET col == CreateColumnByType(type_name)
  IN IF col = NullColumn
       THEN [status |-> "error", err |-> "Column creation failed", col |-> NullColumn]
       ELSE [status |-> "ok", err |-> "", col |-> col]

\* column_size: col_res->ptr->Size().
column_size(col) == Len(col.values)

\* Sequences over S of length 0..n.
SeqUpTo(S, n) == UNION {[1..k -> S] : k \in 0..n}

\* The outcomes of writing through std::static_pointer_cast<ColumnK> when the
\* column is not a ColumnK.  The cast is unchecked, so this is undefined
\* behaviour: the process dies, or the call returns ok after the column's
\* storage has been written as the wrong type, leaving it longer by some
\* number of elements that are not of the column's type.
MiscastOutcomes(col) ==
  {[status |-> "crash", err |-> "", col |-> col]}
  \cup {[status |-> "ok", err |-> "",
         col |-> [col EXCEPT !.values = @ \o junk]] :
          junk \in SeqUpTo({Elem("miscast", <<>>)}, MaxJunk)}

\* try { typed = static_pointer_cast<ColumnK>(ptr); for (v : values)
\* typed->Append(v); return ok } catch (std::exception) { throw
\* runtime_error(msg) }.  elems are the values after the per-element cast;
\* throwAt is the index of the Append that throws (0: none does).  Elements
\* appended before a throw stay in the column.
AppendAll(col, K, elems, throwAt, msg) ==
  IF col.kind = K
    THEN LET n == IF throwAt = 0 THEN Len(elems) ELSE throwAt - 1
         IN {[status |-> IF throwAt = 0 THEN "ok" ELSE "error",
              err |-> IF throwAt = 0 THEN "" ELSE msg,
              col |-> [col EXCEPT !.values = @ \o [i \in 1..n |-> Elem(K, elems[i])]]]}
    ELSE MiscastOutcomes(col)

Map(f(_), s) == [i \in 1..Len(s) |-> f(s[i])]
Reverse(s) == [i \in 1..Len(s) |-> s[Len(s) + 1 - i]]

\* ------------------------------------------------- scalar append NIFs
column_uint64_append(col, value, throwAt) ==
  AppendAll(col, "UInt64", <<CastU64(value)>>, throwAt, "UInt64 append failed")
column_int64_append(col, value, throwAt) ==
  AppendAll(col, "Int64", <<CastI64(value)>>, throwAt, "Int64 append failed")
column_string_append(col, value, throwAt) ==
  AppendAll(col, "String", <<value>>, throwAt, "String append failed")
column_float64_append(col, value, throwAt) ==
  AppendAll(col, "Float64", <<value>>, throwAt, "Float64 append failed")
\* static_cast<time_t>(timestamp): the same 64 bits, as a signed value.
column_datetime_append(col, timestamp, throwAt) ==
  AppendAll(col, "DateTime", <<CastI64(timestamp)>>, throwAt, "DateTime append failed")

\* --------------------------------------------------- bulk append NIFs
column_uint64_append_bulk_reversed(col, values, throwAt) ==
  AppendAll(col, "UInt64", Reverse(Map(CastU64, values)), throwAt, "UInt64 bulk append failed")

column_uint64_append_bulk(col, values, throwAt) ==
  AppendAll(col, "UInt64", Map(CastU64, values), throwAt, "UInt64 bulk append failed")
column_int64_append_bulk(col, values, throwAt) ==
  AppendAll(col, "Int64", Map(CastI64, values), throwAt, "Int64 bulk append failed")
column_string_append_bulk(col, values, throwAt) ==
  AppendAll(col, "String", values, throwAt, "String bulk append failed")
column_float64_append_bulk(col, values, throwAt) ==
  AppendAll(col, "Float64", values, throwAt, "Float64 bulk append failed")
column_datetime_append_bulk(col, timestamps, throwAt) ==
  AppendAll(col, "DateTime", Map(CastI64, timestamps), throwAt, "DateTime bulk append failed")
\* AppendRaw(static_cast<uint16_t>(day))
column_date_append_bulk(col, days, throwAt) ==
  AppendAll(col, "Date", Map(CastU16, days), throwAt, "Date bulk append failed")
column_uint8_append_bulk(col, values, throwAt) ==
  AppendAll(col, "UInt8", Map(CastU8, values), throwAt, "UInt8 bulk append failed")
column_uint32_append_bulk(col, values, throwAt) ==
  AppendAll(col, "UInt32", Map(CastU32, values), throwAt, "UInt32 bulk append failed")
column_uint16_append_bulk(col, values, throwAt) ==
  AppendAll(col, "UInt16", Map(CastU16, values), throwAt, "UInt16 bulk append failed")
column_int32_append_bulk(col, values, throwAt) ==
  AppendAll(col, "Int32", Map(CastI32, values), throwAt, "Int32 bulk append failed")
column_int16_append_bulk(col, values, throwAt) ==
  AppendAll(col, "Int16", Map(CastI16, values), throwAt, "Int16 bulk append failed")
column_int8_append_bulk(col, values, throwAt) ==
  AppendAll(col, "Int8", Map(CastI8, values), throwAt, "Int8 bulk append failed")
column_float32_append_bulk(col, values, throwAt) ==
  AppendAll(col, "Float32", Map(CastFloat, values), throwAt, "Float32 bulk append failed")

\* -------------------------------------------------------- materializer
\* Terms handed to the caller.  An unsigned term denotes the unsigned value
\* of its 64 bits, a signed term their two's-complement value.
enif_make_uint64(x) == [t |-> "uint", v |-> x]
enif_make_int64(x) == [t |-> "int", v |-> x]
enif_make_double(x) == [t |-> "float", v |-> x]
enif_make_binary(x) == [t |-> "binary", v |-> x]
\* What a read outside a container's storage yields when it returns at all.
JunkTerm == [t |-> "junk", v |-> <<>>]

\* The kinds the dispatch chain of block_to_maps_impl recognises.
Extractable ==
  {"UInt64", "UInt32", "UInt16", "UInt8", "Int64", "Int32", "Int16", "Int8",
   "Float64", "Float32", "String", "DateTime", "Date"}

ExtractZeroExtended(K, x) ==
  CASE K \in {"UInt64", "UInt32", "UInt16", "UInt8"} -> enif_make_uint64(x)
    [] K \in {"Int64", "Int32", "Int16", "Int8"} -> enif_make_int64(x)
    [] K = "Float64" -> enif_make_double(x)
    [] K = "Float32" -> enif_make_double(WidenFloat(x))
    [] K = "String" -> enif_make_binary(x)
    [] K \in {"DateTime", "Date"} -> enif_make_uint64(x)

\* The term pushed for one in-range element of a column of kind K: the
\* branch of the if/else-if chain taken for K, applied to At(i) / RawAt(i).
Extract(K, x) ==
  CASE K \in {"UInt64", "UInt32", "UInt16", "UInt8"} -> enif_make_uint64(x)
    [] K = "Int64" -> enif_make_int64(x)
    [] K = "Int32" -> enif_make_int64(SignExtend32(x))
    [] K = "Int16" -> enif_make_int64(SignExtend16(x))
    [] K = "Int8" -> enif_make_int64(SignExtend8(x))
    [] K = "Float64" -> enif_make_double(x)
    [] K = "Float32" -> enif_make_double(WidenFloat(x))
    [] K = "String" -> enif_make_binary(x)
    [] K \in {"DateTime", "Date"} -> enif_make_uint64(x)

\* A block (ColumnSet): [row_count, columns], columns a sequence of
\* [name, col].  block->GetRowCount() is the block's own count; nothing in
\* block_to_maps_impl compares it with the columns' sizes.
ColNames(block) == {block.columns[c].name : c \in 1..Len(block.columns)}
ColByName(block, nm) ==
  block.columns[CHOOSE c \in 1..Len(block.columns) : block.columns[c].name = nm].col

\* col_data[c][r] for row r (1-based here).  A recognised column holds
\* At(i) for every i < row_count; At(i) past the column's end and
\* col_data[c][r] of an unrecognised column (whose column_values stayed
\* empty) are reads outside storage; an element that was written through a
\* wrongly typed pointer reads as junk too.
Cell(col, r) ==
  IF col.kind \in Extractable /\ r <= Len(col.values) /\ col.values[r].kind = col.kind
    THEN Extract(col.kind, col.values[r].v)
    ELSE JunkTerm

ShortColumn(block) ==
  \E c \in 1..Len(block.columns) :
    /\ block.columns[c].col.kind \in Extractable
    /\ Len(block.columns[c].col.values) < block.row_count
UnrecognisedColumn(block) ==
  \E c \in 1..Len(block.columns) : block.columns[c].col.kind \notin Extractable

RowsOf(block) ==
  [r \in 1..block.row_count |->
     [nm \in ColNames(block) |-> Cell(ColByName(block, nm), r)]]

\* block_to_maps_impl: the set of outcomes.  With every column recognised
\* and at least row_count long the only outcome is the row list.  A short
\* column makes At(i) read past its end (the library throws, or undefined
\* behaviour); an unrecognised column makes the row loop read an empty
\* vector (undefined behaviour): the process dies, or junk is read and the
\* rows are returned with it.
block_to_maps_impl(block) ==
  IF block.row_count = 0
    THEN {[status |-> "ok", err |-> "", rows |-> <<>>]}
    ELSE {[status |-> "ok", err |-> "", rows |-> RowsOf(block)]}
         \cup (IF ShortColumn(block)
                 THEN {[status |-> "error", err |-> "out_of_range", rows |-> <<>>]}
                 ELSE {})
         \cup (IF ShortColumn(block) \/ UnrecognisedColumn(block)
                 THEN {[status |-> "crash", err |-> "", rows |-> <<>>]}
                 ELSE {})

\* ------------------------------------------------------------- inputs
U64Samples == {Word(200), Word(511), Word(256), Word(40000), <<1, 40000, 0, 0>>,
               <<LimbMax, 32768, 1, 0>>, AllOnes64}
I64Samples == {Word(127), Word(128), <<65407, LimbMax, LimbMax, LimbMax>>, AllOnes64,
               <<0, 32768, 0, 0>>}
StrSamples == {<<>>, <<97, 0, 255>>}
F64Samples == {<<0, 0, HiMin + 1, 0>>, <<1, 0 - 3, HiTop - 1, LoHalf>>,
               <<0, 2, HiMin, 1>>, <<0, 1000, HiMin, 0>>}

ScalarOps ==
  {"column_uint64_append", "column_int64_append", "column_string_append",
   "column_float64_append", "column_datetime_append"}
BulkOps ==
  {"column_uint64_append_bulk", "column_int64_append_bulk", "column_string_append_bulk",
   "column_float64_append_bulk", "column_datetime_append_bulk", "column_date_append_bulk",
   "column_uint8_append_bulk", "column_uint32_append_bulk", "column_uint16_append_bulk",
   "column_int32_append_bulk", "column_int16_append_bulk", "column_int8_append_bulk",
   "column_float32_append_bulk"}

\* The column type each NIF casts to.
OpKind(op) ==
  CASE op \in {"column_uint64_append", "column_uint64_append_bulk"} -> "UInt64"
    [] op \in {"column_int64_append", "column_int64_append_bulk"} -> "Int64"
    [] op \in {"column_string_append", "column_string_append_bulk"} -> "String"
    [] op \in {"column_float64_append", "column_float64_append_bulk"} -> "Float64"
    [] op \in {"column_datetime_append", "column_datetime_append_bulk"} -> "DateTime"
    [] op = "column_date_append_bulk" -> "Date"
    [] op = "column_uint8_append_bulk" -> "UInt8"
    [] op = "column_uint32_append_bulk" -> "UInt32"
    [] op = "column_uint16_append_bulk" -> "UInt16"
    [] op = "column_int32_append_bulk" -> "Int32"
    [] op = "column_int16_append_bulk" -> "Int16"
    [] op = "column_int8_append_bulk" -> "Int8"
    [] op = "column_float32_append_bulk" -> "Float32"

\* The values a NIF's parameter type admits (uint64_t, int64_t, std::string,
\* double), sampled.
OpSamples(op) ==
  CASE OpKind(op) \in {"UInt64", "UInt32", "UInt16", "UInt8", "Date", "DateTime"} -> U64Samples
    [] OpKind(op) \in {"Int64", "Int32", "Int16", "Int8"} -> I64Samples
    [] OpKind(op) = "String" -> StrSamples
    [] OpKind(op) \in {"Float64", "Float32"} -> F64Samples

ScalarNIF(op, col, value, throwAt) ==
  CASE op = "column_uint64_append" -> column_uint64_append(col, value, throwAt)
    [] op = "column_int64_append" -> column_int64_append(col, value, throwAt)
    [] op = "column_string_append" -> column_string_append(col, value, throwAt)
    [] op = "column_float64_append" -> column_float64_append(col, value, throwAt)
    [] op = "column_datetime_append" -> column_datetime_append(col, value, throwAt)

BulkNIF(op, col, values, throwAt) ==
  CASE op = "column_uint64_append_bulk" -> column_uint64_append_bulk(col, values, throwAt)
    [] op = "column_int64_append_bulk" -> column_int64_append_bulk(col, values, throwAt)
    [] op = "column_string_append_bulk" -> column_string_append_bulk(col, values, throwAt)
    [] op = "column_float64_append_bulk" -> column_float64_append_bulk(col, values, throwAt)
    [] op = "column_datetime_append_bulk" -> column_datetime_append_bulk(col, values, throwAt)
    [] op = "column_date_append_bulk" -> column_date_append_bulk(col, values, throwAt)
    [] op = "column_uint8_append_bulk" -> column_uint8_append_bulk(col, values, throwAt)
    [] op = "column_uint32_append_bulk" -> column_uint32_append_bulk(col, values, throwAt)
    [] op = "column_uint16_append_bulk" -> column_uint16_append_bulk(col, values, throwAt)
    [] op = "column_int32_append_bulk" -> column_int32_append_bulk(col, values, throwAt)
    [] op = "column_int16_append_bulk" -> column_int16_append_bulk(col, values, throwAt)
    [] op = "column_int8_append_bulk" -> column_int8_append_bulk(col, values, throwAt)
    [] op = "column_float32_append_bulk" -> column_float32_append_bulk(col, values, throwAt)

\* ------------------------------------------- column NIFs, call by call
TypeNames == {"UInt64", "UInt8", "String", "NotARealType"}

NoRet == [op |-> "none", h |-> 0, status |-> "ok", err |-> "", name |-> "", n |-> 0]
RECURSIVE TotalElems(_)
TotalElems(cs_) ==
  IF cs_ = <<>> THEN 0 ELSE Len(Head(cs_).values) + TotalElems(Tail(cs_))


Create(type_name) ==
  LET r == column_create(type_name)
  IN /\ ret.status # "crash"
     /\ r.status = "ok" => Len(cols) < MaxCols
     /\ cols' = IF r.status = "ok" THEN Append(cols, r.col) ELSE cols
     /\ ret' = [op |-> "column_create", h |-> IF r.status = "ok" THEN Len(cols) + 1 ELSE 0,
                status |-> r.status, err |-> r.err, name |-> type_name, n |-> 0]

Returned(op, h, o, n) ==
  /\ TotalElems(cols) - Len(cols[h].values) + Len(o.col.values) <= MaxElems
  /\ cols' = [cols EXCEPT ![h] = o.col]
  /\ ret' = [op |-> op, h |-> h, status |-> o.status, err |-> o.err, name |-> "", n |-> n]

AppendOne(op, h, value, throwAt) ==
  /\ ret.status # "crash"
  /\ \E o \in ScalarNIF(op, cols[h], value, throwAt) : Returned(op, h, o, 1)

AppendBulk(op, h, values, throwAt) ==
  /\ ret.status # "crash"
  /\ \E o \in BulkNIF(op, cols[h], values, throwAt) : Returned(op, h, o, Len(values))

Size(h) ==
  /\ ret.status # "crash"
  /\ cols' = cols
  /\ ret' = [op |-> "column_size", h |-> h, status |-> "ok", err |-> "", name |-> "",
             n |-> column_size(cols[h])]

\* The NIFs and argument values the callers of this specification use.
CallerScalarOps == {"column_uint64_append", "column_string_append"}
CallerBulkOps ==
  {"column_uint64_append_bulk", "column_uint8_append_bulk", "column_string_append_bulk"}
CallerSamples(op) == OpSamples(op) \cap {Word(511), <<97, 0, 255>>}

CreateCall ==
  /\ \E type_name \in TypeNames : Create(type_name)
  /\ UNCHANGED <<callVars, matVars, selVars>>
AppendCall ==
  /\ \E op \in CallerScalarOps, h \in 1..Len(cols), throwAt \in 0..1 :
       \E value \in CallerSamples(op) : AppendOne(op, h, value, throwAt)
  /\ UNCHANGED <<callVars, matVars, selVars>>
AppendBulkCall ==
  /\ \E op \in CallerBulkOps, h \in 1..Len(cols) :
       \E values \in SeqUpTo(CallerSamples(op), MaxBulk) :
         \E throwAt \in 0..Len(values) : AppendBulk(op, h, values, throwAt)
  /\ UNCHANGED <<callVars, matVars, selVars>>
SizeCall ==
  /\ \E h \in 1..Len(cols) : Size(h)
  /\ UNCHANGED <<callVars, matVars, selVars>>

\* ------------------------------- one append call, bulk against scalar
NoOutcome == [status |-> "none", err |-> "", col |-> NullColumn]
NoRows == [status |-> "none", err |-> "", rows |-> <<>>]

\* The scalar NIF for the same column type, where there is one.
ScalarTwin(op) ==
  CASE op = "column_uint64_append_bulk" -> "column_uint64_append"
    [] op = "column_int64_append_bulk" -> "column_int64_append"
    [] op = "column_string_append_bulk" -> "column_string_append"
    [] op = "column_float64_append_bulk" -> "column_float64_append"
    [] op = "column_datetime_append_bulk" -> "column_datetime_append"
    [] OTHER -> "none"

\* Starting columns of the op's own type: fresh from column_create,
\* already holding one element appended earlier, or left longer by an
\* earlier call through the wrong NIF.
StartCols(op) ==
  LET fresh == column_create(OpKind(op)).col
      first == CHOOSE x \in OpSamples(op) : TRUE
  IN {fresh} \cup {o.col : o \in BulkNIF(op, fresh, <<first>>, 0)}
             \cup {o.col : o \in {m \in MiscastOutcomes(fresh) : m.status = "ok"}}

CallBulk ==
  /\ bulk = NoOutcome
  /\ bulk' \in BulkNIF(call.op, call.col, call.values, call.throwAt)
  /\ UNCHANGED <<call, scalar, rows, colVars, matVars, selVars>>

\* The caller appends value by value and stops at the first failed call.
CallScalar ==
  /\ ScalarTwin(call.op) # "none"
  /\ scalar.status = "ok"
  /\ scalar.i < Len(call.values)
  /\ \E o \in ScalarNIF(ScalarTwin(call.op), scalar.col, call.values[scalar.i + 1],
                        IF call.throwAt = scalar.i + 1 THEN 1 ELSE 0) :
       scalar' = [col |-> o.col, i |-> scalar.i + 1, status |-> o.status]
  /\ UNCHANGED <<call, bulk, rows, colVars, matVars, selVars>>

\* The bulk-built column comes back as the only column, "n", of a block.
MaterializeColumn ==
  /\ bulk # NoOutcome
  /\ rows = NoRows
  /\ rows' \in block_to_maps_impl(
       [row_count |-> column_size(bulk.col),
        columns |-> <<[name |-> "n", col |-> bulk.col]>>])
  /\ UNCHANGED <<call, bulk, scalar, colVars, matVars, selVars>>


\* ------------------------------------------- blocks for the materializer
\* The i-th value of sample column number seed, as stored.
SampleValue(K, seed, i) ==
  CASE K = "String" -> <<96 + seed, 48 + i>>
    [] K = "Float64" -> <<0, i, HiMin + seed, 0>>
    [] OTHER -> Word(16 * seed + i)

SampleColumn(K, seed, len) ==
  [kind |-> K, values |-> [i \in 1..len |-> Elem(K, SampleValue(K, seed, i))]]

\* Column types a decoded block can carry; "UUID" stands for the types
\* the library decodes and block_to_maps_impl has no branch for.
BlockKinds == {"UInt64", "Int8", "String", "UUID"}

OneColumnBlock(n, Ka, la) ==
  [row_count |-> n, columns |-> <<[name |-> "a", col |-> SampleColumn(Ka, 1, la)]>>]
TwoColumnBlock(n, Ka, la, Kb, lb) ==
  [row_count |-> n,
   columns |-> <<[name |-> "a", col |-> SampleColumn(Ka, 1, la)],
                 [name |-> "b", col |-> SampleColumn(Kb, 2, lb)]>>]

Materialize ==
  /\ out = NoRows
  /\ out' \in block_to_maps_impl(cs)
  /\ UNCHANGED <<cs, colVars, callVars, selVars>>

\* ------------------------------------------------------- client_select
\* Blocks as the wire decoder delivers them: every column row_count long.
DecodedBlock(seed, n, Ka, Kb) ==
  [row_count |-> n,
   columns |-> <<[name |-> "a", col |-> SampleColumn(Ka, seed, n)],
                 [name |-> "b", col |-> SampleColumn(Kb, seed + 4, n)]>>]

SelectBlocks ==
  {DecodedBlock(1, 2, "UInt64", "String"), DecodedBlock(2, 1, "UInt64", "String"),
   DecodedBlock(3, 0, "UInt64", "String"), DecodedBlock(4, 2, "UInt64", "UUID")}

CollectFront(maps, list) == list \o maps
CollectLatest(maps, list) == list

\* enif_get_list_cell over maps_from_block, all_maps.push_back(head).
Collect(maps, list) == maps \o list

\* The Select callback for one block.  An exception or a crash inside
\* block_to_maps_impl ends client_select without a result.
OnBlock(block) ==
  /\ pc = "selecting"
  /\ Len(arrived) < MaxBlocks
  /\ arrived' = Append(arrived, block)
  /\ \E o \in block_to_maps_impl(block) :
       /\ all_maps' = IF o.status = "ok" THEN Collect(all_maps, o.rows) ELSE all_maps
       /\ pc' = CASE o.status = "ok" -> "selecting"
                  [] o.status = "error" -> "raised"
                  [] o.status = "crash" -> "crashed"
  /\ UNCHANGED <<result, colVars, callVars, matVars>>

\* After the last block: the whole of all_maps as one list.
Return ==
  /\ pc = "selecting"
  /\ result' = all_maps
  /\ pc' = "returned"
  /\ UNCHANGED <<arrived, all_maps, colVars, callVars, matVars>>

Deliver == \E block \in SelectBlocks : OnBlock(block)

\* ------------------------------------------------------ specifications
IdleCols == cols = <<>> /\ ret = NoRet
IdleCall ==
  /\ call = [op |-> "none", col |-> NullColumn, values |-> <<>>, throwAt |-> 0]
  /\ bulk = NoOutcome
  /\ scalar = [col |-> NullColumn, i |-> 0, status |-> "ok"]
  /\ rows = NoRows
IdleMat == cs = [row_count |-> 0, columns |-> <<>>] /\ out = NoRows
IdleSelect == arrived = <<>> /\ all_maps = <<>> /\ pc = "idle" /\ result = <<>>

\* Column NIFs called in any order on the columns created so far.
Init == IdleCols /\ IdleCall /\ IdleMat /\ IdleSelect
Next == CreateCall \/ AppendCall \/ AppendBulkCall \/ SizeCall
Spec == Init /\ [][Next]_vars

\* One append call on one column, through the bulk NIF and through the
\* scalar NIF, and the column read back through block_to_maps_impl.
InitCall ==
  /\ IdleCols /\ IdleMat /\ IdleSelect
  /\ \E op \in BulkOps : \E values \in SeqUpTo(OpSamples(op), MaxBulk) :
       \E col \in StartCols(op), throwAt \in 0..Len(values) :
         call = [op |-> op, col |-> col, values |-> values, throwAt |-> throwAt]
  /\ bulk = NoOutcome
  /\ scalar = [col |-> call.col, i |-> 0, status |-> "ok"]
  /\ rows = NoRows
NextCall == CallBulk \/ CallScalar \/ MaterializeColumn
SpecCall == InitCall /\ [][NextCall]_vars

\* block_to_maps_impl on one block.
InitMat ==
  /\ IdleCols /\ IdleCall /\ IdleSelect
  /\ \E n \in 0..MaxRows, Ka \in BlockKinds, la \in 0..(MaxRows + 1) :
       \/ cs = OneColumnBlock(n, Ka, la)
       \/ \E Kb \in BlockKinds, lb \in 0..(MaxRows + 1) : cs = TwoColumnBlock(n, Ka, la, Kb, lb)
  /\ out = NoRows
NextMat == Materialize
SpecMat == InitMat /\ [][NextMat]_vars

\* client_select over the blocks of one query, in their arrival order.
InitSelect ==
  /\ IdleCols /\ IdleCall /\ IdleMat
  /\ arrived = <<>> /\ all_maps = <<>> /\ pc = "selecting" /\ result = <<>>
NextSelect == Deliver \/ Return
SpecSelect == InitSelect /\ [][NextSelect]_vars

\* ------------------------------------------------------------- claims
\* Bit b (0 = least significant) of a 64-bit word.
Bit(w, b) == (w[(b \div 16) + 1] \div Pow2(b % 16)) % 2
Min(a, b) == IF a < b THEN a ELSE b

UnsignedKinds == {"UInt8", "UInt16", "UInt32", "UInt64", "Date", "DateTime"}
SignedKinds == {"Int8", "Int16", "Int32", "Int64"}
Width(K) ==
  CASE K \in {"UInt8", "Int8"} -> 8
    [] K \in {"UInt16", "Int16", "Date"} -> 16
    [] K \in {"UInt32", "Int32"} -> 32
    [] OTHER -> 64

RECURSIVE TotalRows(_)
TotalRows(blocks) ==
  IF blocks = <<>> THEN 0 ELSE Head(blocks).row_count + TotalRows(Tail(blocks))
MaxRowCount(blocks) ==
  IF blocks = <<>> THEN 0
  ELSE CHOOSE m \in {blocks[k].row_count : k \in 1..Len(blocks)} :
         \A k \in 1..Len(blocks) : blocks[k].row_count <= m

LengthsDiffer(block) ==
  \E c, d \in 1..Len(block.columns) :
    Len(block.columns[c].col.values) # Len(block.columns[d].col.values)

\* C1: a block whose columns differ in length makes block_to_maps_impl fail
\* with RowCountMismatch and produce no rows.
C1_RowCountMismatchRaised ==
  (out # NoRows /\ LengthsDiffer(cs)) =>
    (out.status = "error" /\ out.err = "RowCountMismatch" /\ out.rows = <<>>)

\* C2: a block with rows and a column of a kind outside the supported
\* scalar kinds makes block_to_maps_impl fail with UnsupportedColumnType
\* and produce no rows.
C2_UnsupportedColumnRaised ==
  (/\ out # NoRows
   /\ cs.row_count > 0
   /\ \E c \in 1..Len(cs.columns) : cs.columns[c].col.kind \notin ScalarKinds) =>
    (out.status = "error" /\ out.err = "UnsupportedColumnType" /\ out.rows = <<>>)

TypeInv ==
  \A h \in 1..Len(cols) : \A i \in 1..Len(cols[h].values) :
    cols[h].values[i].kind = cols[h].kind

\* C3: an append or append_bulk whose NIF is for another kind than the
\* column's fails with an error and leaves the column as it was, and every
\* stored element has its column's kind.
C3_MiscastRejected ==
  [][/\ (ret'.op \in ScalarOps \cup BulkOps /\ cols[ret'.h].kind # OpKind(ret'.op)) =>
          (ret'.status = "error" /\ cols' = cols)
     /\ TypeInv']_vars

\* C4: what client_select returns is the blocks' rows, block after block
\* in arrival order, each block's rows in index order: row r of the k-th
\* block is at position (rows of the earlier blocks) + r, and maps every
\* column name to that column's r-th value.
C4_RowsInArrivalOrder ==
  pc = "returned" =>
    /\ Len(result) = TotalRows(arrived)
    /\ \A k \in 1..Len(arrived) : \A r \in 1..arrived[k].row_count :
         LET row == result[TotalRows(SubSeq(arrived, 1, k - 1)) + r]
         IN /\ DOMAIN row = ColNames(arrived[k])
            /\ \A c \in 1..Len(arrived[k].columns) :
                 LET column == arrived[k].columns[c]
                 IN column.col.kind \in ScalarKinds =>
                      row[column.name] = Extract(column.col.kind, column.col.values[r].v)

C4_Witness ==
  /\ pc = "returned"
  /\ Len(arrived) = 2
  /\ arrived[1].row_count = 1
  /\ arrived[2].row_count = 2
  /\ Len(result) = 3

ScalarDone == scalar.i = Len(call.values) \/ scalar.status # "ok"

\* C5: for the five kinds with both paths, the bulk NIF leaves the column
\* exactly as one scalar NIF call per value, in order, leaves it; a bulk
\* append of no values leaves it as it was.
C5_BulkEqualsScalar ==
  /\ (ScalarTwin(call.op) # "none" /\ bulk # NoOutcome /\ ScalarDone) =>
       (bulk.col = scalar.col /\ bulk.status = scalar.status)
  /\ (bulk # NoOutcome /\ call.values = <<>>) => (bulk.col = call.col /\ bulk.status = "ok")

C5_Witness ==
  /\ ScalarTwin(call.op) # "none"
  /\ call.throwAt = 0
  /\ call.col.values # <<>>
  /\ Len(call.values) = 2
  /\ call.values[1] # call.values[2]
  /\ bulk.status = "ok"
  /\ scalar.i = 2

NarrowOps ==
  {"column_date_append_bulk", "column_uint8_append_bulk", "column_uint16_append_bulk",
   "column_uint32_append_bulk", "column_int8_append_bulk", "column_int16_append_bulk",
   "column_int32_append_bulk"}

\* C6: a narrowing bulk NIF stores, for each 64-bit value, exactly its
\* low-order w bits (read back sign-extended for the signed kinds); the
\* call succeeds whatever the values are; 0x1FF goes into a UInt8 column
\* as 0xFF and 0x100 as 0x00.
C6_NarrowingKeepsLowBits ==
  (call.op \in NarrowOps /\ bulk # NoOutcome) =>
    LET K == OpKind(call.op)
        w == Width(K)
        base == Len(call.col.values)
        n == IF call.throwAt = 0 THEN Len(call.values) ELSE call.throwAt - 1
    IN /\ Len(bulk.col.values) = base + n
       /\ call.throwAt = 0 => bulk.status = "ok"
       /\ \A i \in 1..n :
            LET e == bulk.col.values[base + i]
                v == call.values[i]
            IN /\ e.kind = K
               /\ \A b \in 0..63 : Bit(e.v, b) = IF b < w THEN Bit(v, b) ELSE 0
               /\ K \in SignedKinds =>
                    /\ Extract(K, e.v).t = "int"
                    /\ \A b \in 0..63 : Bit(Extract(K, e.v).v, b) = Bit(v, Min(b, w - 1))
               /\ (K = "UInt8" /\ v = Word(511)) => e.v = Word(255)
               /\ (K = "UInt8" /\ v = Word(256)) => e.v = Word(0)

C6_Witness ==
  /\ call.op = "column_uint8_append_bulk"
  /\ call.values = <<Word(511), Word(256)>>
  /\ bulk.status = "ok"
  /\ Len(bulk.col.values) = Len(call.col.values) + 2

\* A value the kind can hold: within its width for the integer kinds,
\* exactly representable for Float32; a DateTime is an unsigned 32-bit
\* count of seconds.
Valid(K, v) ==
  CASE K = "DateTime" -> \A b \in 0..63 : b >= 32 => Bit(v, b) = 0
    [] K \in UnsignedKinds -> \A b \in 0..63 : b >= Width(K) => Bit(v, b) = 0
    [] K \in SignedKinds -> \A b \in 0..63 : b >= Width(K) => Bit(v, b) = Bit(v, Width(K) - 1)
    [] K = "Float32" -> v[4] = 0 /\ v[2] >= FloatMinExp /\ v[2] <= FloatMaxExp
    [] OTHER -> TRUE

\* The value as the caller gave it, as a term.
External(K, v) ==
  CASE K \in UnsignedKinds -> [t |-> "uint", v |-> v]
    [] K \in SignedKinds -> [t |-> "int", v |-> v]
    [] K \in {"Float32", "Float64"} -> [t |-> "float", v |-> v]
    [] K = "String" -> [t |-> "binary", v |-> v]

Negative(term) == term.t = "int" /\ Bit(term.v, 63) = 1

C10_SizeCountsAppends ==
  [][LET before == Len(cols[ret'.h].values)
         after == Len(cols'[ret'.h].values)
     IN /\ ret'.op = "column_size" =>
             (ret'.status = "ok" /\ ret'.n = before /\ cols' = cols)
        /\ (ret'.op \in ScalarOps /\ ret'.status = "ok") => after = before + 1
        /\ (ret'.op \in BulkOps /\ ret'.status = "ok") => after = before + ret'.n
        /\ (ret'.op \in BulkOps /\ ret'.status = "error") =>
             (after >= before /\ after < before + ret'.n)]_vars

====
